---- MODULE Spec2Model ----
(***************************************************************************)
(* librectf: the HTTP router (components/api/src/routes.rs) and the shared *)
(* State (components/core/src/state.rs).                                   *)
(*                                                                         *)
(* A request is dispatched by router(): it passes the middlewares of the   *)
(* scopes that enclose its resource, outermost first, and then runs the    *)
(* resource's handler.  The handlers are modelled from routes.rs.  The     *)
(* functions they call (create_team, invite_user, my_profile, submit_flag, *)
(* register_user, ...) and the middlewares (LoginRequired, TeamRequired)   *)
(* live in other crates of the workspace; they are modelled from the      *)
(* specification of the system.                                            *)
(***************************************************************************)
EXTENDS Integers, Sequences, FiniteSets, Bags, TLC

VARIABLES
    users,        \* identity rows of the backing store
    teams,        \* team rows: team id -> [name, captain, roster]
    invites,      \* invite entries [team, target, by, status]
    submissions,  \* the append-only submission log
    reqs,         \* the bag of requests in flight, at most one per worker
    states,       \* the State handle each holder owns: its three Arc pointers
    heap,         \* what the Arcs point to: pools, configs, locked template sets
    threads       \* each holder's position inside a State operation

vars == <<users, teams, invites, submissions, reqs, states, heap, threads>>

\* The backing store and the requests; the shared State.
store == <<users, teams, invites, submissions, reqs>>
shared == <<states, heap, threads>>

----------------------------------------------------------------------------
(* Bounds of the model *)

NumIdentities == 3
NumTeams == 2
NumWorkers == 2
NumChallenges == 1
MaxSubmissions == 2
NumPasswords == 2
NumHolders == 2
NumTemplates == 2
MaxBatch == 2
PoolSize == 1

Identities == 1..NumIdentities
TeamIds == 1..NumTeams
TeamNames == 1..NumTeams
Challenges == 1..NumChallenges

----------------------------------------------------------------------------
(* Responses: actix_web::HttpResponse builders used by routes.rs *)

Ok == 200
BadRequest == 400
Unauthorized == 401
Forbidden == 403
InternalServerError == 500

NoResponse == 0
NoClaims == 0
NoTeam == 0

\* A bearer token: absent, tampered, expired, or issued to an identity.
NoToken == [kind |-> "none", id |-> 0]
InvalidToken == [kind |-> "invalid", id |-> 0]
ExpiredToken == [kind |-> "expired", id |-> 0]
ValidToken(i) == [kind |-> "valid", id |-> i]
Tokens == {NoToken, InvalidToken, ExpiredToken} \cup {ValidToken(i) : i \in Identities}

----------------------------------------------------------------------------
(* Backing store *)

Absent == [name |-> 0, captain |-> 0, roster |-> {}]

Exists(t) == teams[t].name # 0

\* The teams whose roster lists identity i.
TeamsOf(i) == {t \in TeamIds : i \in teams[t].roster}

TeamOf(i) == IF TeamsOf(i) = {} THEN NoTeam ELSE CHOOSE t \in TeamsOf(i) : TRUE

IsCaptain(i) == \E t \in TeamIds : Exists(t) /\ teams[t].captain = i

FreeTeamIds == {t \in TeamIds : ~Exists(t)}

Pending(t, i) == \E e \in invites : e.team = t /\ e.target = i /\ e.status = "Pending"

\* A team table that satisfies the data model: names distinct, the captain on
\* the roster, every identity on at most one roster.
WellFormed(tt) ==
    /\ \A t \in TeamIds :
          \/ tt[t] = Absent
          \/ /\ tt[t].name \in TeamNames
             /\ tt[t].captain \in tt[t].roster
    /\ \A t1, t2 \in TeamIds :
          (t1 # t2 /\ tt[t1] # Absent /\ tt[t2] # Absent) =>
             /\ tt[t1].name # tt[t2].name
             /\ tt[t1].roster \cap tt[t2].roster = {}

TeamRows ==
    {Absent} \cup [name : TeamNames, captain : Identities, roster : SUBSET Identities]

Names == Identities
Emails == Identities
Passwords == 1..NumPasswords

\* The one-way credential hash; the plaintext is never stored.
Hash(password) == (password * 7 + 3) % 11

SeededUsers == {[id |-> i, name |-> i, email |-> i, hash |-> Hash(1)] : i \in Identities}

\* Challenge c is worth Value(c) points and its canonical flag is Flag(c);
\* text 0 is the flag of no challenge.
Flag(c) == c
Value(c) == c * 100
Texts == 0..NumChallenges

----------------------------------------------------------------------------
(* Results of the core operations *)

Success(v) == [ok |-> TRUE, err |-> "none", value |-> v]
Failure(e) == [ok |-> FALSE, err |-> e, value |-> 0]


----------------------------------------------------------------------------
(* State (components/core/src/state.rs): three Arcs, cloned by pointer *)

Holders == 1..NumHolders
TemplateNames == 1..NumTemplates

None == [some |-> FALSE]
Some(v) == [some |-> TRUE, value |-> v]

\* config::Config: the database url and the optional web section with its
\* optional filestore section.
Configs ==
    {[database_url |-> 1, web |-> None],
     [database_url |-> 1, web |-> Some([filestore |-> None])],
     [database_url |-> 1, web |-> Some([filestore |-> Some(1)])]}

DefaultConfig == [database_url |-> 1, web |-> None]

\* db::establish_connection(url): a pool of PoolSize connections.
establish_connection(url) == [url |-> url, idle |-> PoolSize]

\* Tera::default(): no template under any name.
NoTemplate == 0
TeraDefault == [n \in TemplateNames |-> NoTemplate]

\* Mutex::new(v): the value, and the holder of the lock.
Unlocked == 0
MutexNew(v) == [value |-> v, holder |-> Unlocked]

EmptyHeap == [pools |-> <<>>, configs |-> <<>>, teras |-> <<>>]
NoState == [inner |-> 0, config |-> 0, tera |-> 0]

\* State::from(config): a new pool, a copy of the config and an empty
\* template set, each behind a new Arc.
State_from(config, h) ==
    LET h2 == [pools   |-> Append(h.pools, establish_connection(config.database_url)),
               configs |-> Append(h.configs, config),
               teras   |-> Append(h.teras, MutexNew(TeraDefault))]
    IN  [state |-> [inner |-> Len(h2.pools), config |-> Len(h2.configs),
                    tera |-> Len(h2.teras)],
         heap |-> h2]

\* A clone that builds a State of its own from the original's config.
State_clone_Rebuilt(s, h) == State_from(h.configs[s.config], h)

\* #[derive(Clone)]: Arc::clone of each field; nothing is allocated.
State_clone(s, h) == [state |-> s, heap |-> h]

\* A lock that is handed out while another holder has it.
CanLock_Always(m) == TRUE

\* Mutex::lock() returns once no one holds the lock.  No holder panics
\* inside it, so the lock is never poisoned.
CanLock(m) == m.holder = Unlocked

Locked(m, th) == [m EXCEPT !.holder = th]

\* The MutexGuard is dropped: the lock is free again if th held it.
Released(m, th) == [m EXCEPT !.holder = IF @ = th THEN Unlocked ELSE @]

\* The batches a holder adds: up to MaxBatch names; the text it adds under
\* a name identifies the holder.
Batches == UNION {[1..n -> TemplateNames] : n \in 1..MaxBatch}

NoResult == [op |-> "none", ok |-> TRUE, value |-> 0]
Returned(op, v) == [op |-> op, ok |-> TRUE, value |-> v]
Erred(op) == [op |-> op, ok |-> FALSE, value |-> 0]

Idle == [pc |-> "idle", page |-> 0, batch |-> <<>>, pos |-> 0,
         out |-> NoResult, conns |-> 0]

Live == {th \in Holders : states[th] # NoState}
Free(th) == th \in Live /\ threads[th].pc = "idle"

Return(th, r) ==
    threads' = [threads EXCEPT ![th] = [@ EXCEPT !.pc = "idle", !.page = 0,
                                                 !.batch = <<>>, !.pos = 0, !.out = r]]

\* The state after State::from(config): holder 1 owns the State.
Boot(config) ==
    LET r == State_from(config, EmptyHeap)
    IN  /\ states = [th \in Holders |-> IF th = 1 THEN r.state ELSE NoState]
        /\ heap = r.heap
        /\ threads = [th \in Holders |-> Idle]

\* A holder clones its State for a holder that has none.
Clone(src, dst) ==
    /\ Free(src)
    /\ dst \notin Live
    /\ LET r == State_clone(states[src], heap)
       IN  /\ states' = [states EXCEPT ![dst] = r.state]
           /\ heap' = r.heap
    /\ UNCHANGED <<threads, store>>

get_web_config(th) ==
    /\ Free(th)
    /\ Return(th, Returned("get_web_config", heap.configs[states[th].config].web))
    /\ UNCHANGED <<states, heap, store>>

get_filestore_config(th) ==
    /\ Free(th)
    /\ LET web == heap.configs[states[th].config].web
       IN  Return(th, Returned("get_filestore_config",
                               IF web.some THEN web.value.filestore ELSE None))
    /\ UNCHANGED <<states, heap, store>>

\* render, up to the lock: self.tera.lock().
render_lock(th, page) ==
    /\ Free(th)
    /\ CanLock(heap.teras[states[th].tera])
    /\ heap' = [heap EXCEPT !.teras[states[th].tera] = Locked(@, th)]
    /\ threads' = [threads EXCEPT ![th] = [@ EXCEPT !.pc = "render", !.page = page]]
    /\ UNCHANGED <<states, store>>

\* render, under the lock: t.render(page, ctx) reads the template set; a
\* page nobody added is an error.  The guard is dropped on return.
render(th) ==
    /\ th \in Live
    /\ threads[th].pc = "render"
    /\ LET text == heap.teras[states[th].tera].value[threads[th].page]
       IN  Return(th, IF text = NoTemplate THEN Erred("render")
                      ELSE Returned("render", text))
    /\ heap' = [heap EXCEPT !.teras[states[th].tera] = Released(@, th)]
    /\ UNCHANGED <<states, store>>

\* add_templates, up to the lock.
add_templates_lock(th, batch) ==
    /\ Free(th)
    /\ CanLock(heap.teras[states[th].tera])
    /\ heap' = [heap EXCEPT !.teras[states[th].tera] = Locked(@, th)]
    /\ threads' = [threads EXCEPT ![th] = [@ EXCEPT !.pc = "add", !.batch = batch,
                                                    !.pos = 1]]
    /\ UNCHANGED <<states, store>>

\* add_templates, under the lock: t.add_raw_templates(templates) takes the
\* templates in one by one; one that does not parse ends the call with an
\* error and leaves the earlier ones in the set.
add_raw_template(th) ==
    /\ th \in Live
    /\ threads[th].pc = "add"
    /\ threads[th].pos <= Len(threads[th].batch)
    /\ \E parses \in BOOLEAN :
         IF parses
         THEN /\ heap' = [heap EXCEPT !.teras[states[th].tera].value[
                                          threads[th].batch[threads[th].pos]] = th]
              /\ threads' = [threads EXCEPT ![th].pos = @ + 1]
         ELSE /\ heap' = [heap EXCEPT !.teras[states[th].tera] = Released(@, th)]
              /\ Return(th, Erred("add_templates"))
    /\ UNCHANGED <<states, store>>

\* add_templates returns Ok: the whole batch is in the set; the guard is
\* dropped.
add_templates(th) ==
    /\ th \in Live
    /\ threads[th].pc = "add"
    /\ threads[th].pos > Len(threads[th].batch)
    /\ heap' = [heap EXCEPT !.teras[states[th].tera] = Released(@, th)]
    /\ Return(th, Returned("add_templates", 0))
    /\ UNCHANGED <<states, store>>

\* get_connection: a connection of the pool, or an error when none is idle.
get_connection(th) ==
    /\ Free(th)
    /\ LET p == states[th].inner
       IN  IF heap.pools[p].idle > 0
           THEN /\ heap' = [heap EXCEPT !.pools[p].idle = @ - 1]
                /\ threads' = [threads EXCEPT ![th] =
                                  [@ EXCEPT !.conns = @ + 1,
                                            !.out = Returned("get_connection", p)]]
           ELSE /\ heap' = heap
                /\ Return(th, Erred("get_connection"))
    /\ UNCHANGED <<states, store>>

\* A Connection is dropped and goes back to the pool it came from.
drop_connection(th) ==
    /\ Free(th)
    /\ threads[th].conns > 0
    /\ heap' = [heap EXCEPT !.pools[states[th].inner].idle = @ + 1]
    /\ threads' = [threads EXCEPT ![th].conns = @ - 1]
    /\ UNCHANGED <<states, store>>

StateInit ==
    /\ users = {}
    /\ teams = [t \in TeamIds |-> Absent]
    /\ invites = {}
    /\ submissions = <<>>
    /\ reqs = EmptyBag
    /\ \E config \in Configs : Boot(config)

Cloning == \E src, dst \in Holders : Clone(src, dst)
GetWebConfig == \E th \in Holders : get_web_config(th)
GetFilestoreConfig == \E th \in Holders : get_filestore_config(th)
RenderLock == \E th \in Holders, page \in TemplateNames : render_lock(th, page)
Render == \E th \in Holders : render(th)
AddTemplatesLock == \E th \in Holders, batch \in Batches : add_templates_lock(th, batch)
AddRawTemplate == \E th \in Holders : add_raw_template(th)
AddTemplates == \E th \in Holders : add_templates(th)
GetConnection == \E th \in Holders : get_connection(th)
DropConnection == \E th \in Holders : drop_connection(th)

StateNext ==
    \/ Cloning
    \/ GetWebConfig
    \/ GetFilestoreConfig
    \/ RenderLock
    \/ Render
    \/ AddTemplatesLock
    \/ AddRawTemplate
    \/ AddTemplates
    \/ GetConnection
    \/ DropConnection

StateSpec == StateInit /\ [][StateNext]_vars

----------------------------------------------------------------------------
(* Credential Service and the guards of the Authorization Pipeline *)

\* verify(token): the claims of a well-signed, unexpired token.
verify(token) ==
    IF token.kind = "valid" THEN Success(token.id)
    ELSE IF token.kind = "expired" THEN Failure("Expired")
    ELSE Failure("Invalid")

Reject(q, code) == [q EXCEPT !.status = code]

\* user::LoginRequired: Unauthorized unless the bearer token verifies;
\* attaches the LoginClaims to the request's extensions.
LoginRequired(q) ==
    IF q.token = NoToken \/ ~verify(q.token).ok
    THEN Reject(q, Unauthorized)
    ELSE [q EXCEPT !.claims = verify(q.token).value]

\* team::TeamRequired(flag).  True: the requester must have a team, which is
\* attached to the request; reading claims that were never attached is an
\* unexpected failure.  False: passes through, attaching the team if any.
TeamRequired(strict, q) ==
    IF strict
    THEN IF q.claims = NoClaims THEN Reject(q, InternalServerError)
         ELSE IF TeamOf(q.claims) = NoTeam THEN Reject(q, Forbidden)
         ELSE [q EXCEPT !.team = TeamOf(q.claims)]
    ELSE IF q.claims # NoClaims /\ TeamOf(q.claims) # NoTeam
         THEN [q EXCEPT !.team = TeamOf(q.claims)]
         ELSE q

----------------------------------------------------------------------------
(* router(): the middlewares in front of each resource, outermost first *)

TeamRoutes == {"/team/create", "/team/me", "/team/accept"}
ManageRoutes == {"/team/manage/invite", "/team/manage/kick"}
ChalRoutes == {"/chal/list", "/chal/submit"}
UserRoutes == {"/user/login", "/user/register"}
BaseRoutes == {"/scoreboard"}
Routes == BaseRoutes \cup ChalRoutes \cup TeamRoutes \cup ManageRoutes \cup UserRoutes

\* The nested /manage scope's guard registered ahead of the /team scope's.
GuardChain_StrictFirst(route) ==
    CASE route \in ChalRoutes   -> <<"TeamRequired(False)">>
      [] route \in TeamRoutes   -> <<"LoginRequired">>
      [] route \in ManageRoutes -> <<"TeamRequired(True)", "LoginRequired">>
      [] OTHER                  -> <<>>

\* The /manage scope registered beside /team, outside its LoginRequired.
GuardChain_ManageOutsideTeam(route) ==
    CASE route \in ChalRoutes   -> <<"TeamRequired(False)">>
      [] route \in TeamRoutes   -> <<"LoginRequired">>
      [] route \in ManageRoutes -> <<"TeamRequired(True)">>
      [] OTHER                  -> <<>>

\* The /manage scope guarded by TeamRequired(False) instead of True.
GuardChain_LooseManage(route) ==
    CASE route \in ChalRoutes   -> <<"TeamRequired(False)">>
      [] route \in TeamRoutes   -> <<"LoginRequired">>
      [] route \in ManageRoutes -> <<"LoginRequired", "TeamRequired(False)">>
      [] OTHER                  -> <<>>

\* The /chal scope guarded by TeamRequired(True) instead of False.
GuardChain_StrictChal(route) ==
    CASE route \in ChalRoutes   -> <<"TeamRequired(True)">>
      [] route \in TeamRoutes   -> <<"LoginRequired">>
      [] route \in ManageRoutes -> <<"LoginRequired", "TeamRequired(True)">>
      [] OTHER                  -> <<>>

\* LoginRequired registered on the nested /manage scope only.
GuardChain_OpenTeam(route) ==
    CASE route \in ChalRoutes   -> <<"TeamRequired(False)">>
      [] route \in TeamRoutes   -> <<>>
      [] route \in ManageRoutes -> <<"LoginRequired", "TeamRequired(True)">>
      [] OTHER                  -> <<>>

\* The application-wide APIMiddleware is no guard: it admits every request
\* and attaches nothing the guards or the handlers read.
GuardChain(route) ==
    CASE route \in ChalRoutes   -> <<"TeamRequired(False)">>
      [] route \in TeamRoutes   -> <<"LoginRequired">>
      [] route \in ManageRoutes -> <<"LoginRequired", "TeamRequired(True)">>
      [] OTHER                  -> <<>>

\* One middleware's start(): it runs on the request as the earlier ones left it.
RunGuard(g, q) ==
    LET q1 == [q EXCEPT !.stage = @ + 1,
                        !.trace = Append(@, [guard |-> g, claims |-> q.claims # NoClaims])]
    IN  CASE g = "LoginRequired"       -> LoginRequired(q1)
          [] g = "TeamRequired(True)"  -> TeamRequired(TRUE, q1)
          [] g = "TeamRequired(False)" -> TeamRequired(FALSE, q1)
          [] OTHER                     -> q1

----------------------------------------------------------------------------
(* Team Lifecycle Manager: the operations the team handlers call *)

\* create_team(db, creator, form): the creator becomes captain and sole member.
create_team(creator, form, fault) ==
    IF fault THEN Failure("ServerError")
    ELSE IF TeamOf(creator) # NoTeam THEN Failure("AlreadyOnTeam")
    ELSE IF \E t \in TeamIds : Exists(t) /\ teams[t].name = form.name
         THEN Failure("NameTaken")
    ELSE LET t == CHOOSE x \in FreeTeamIds : \A y \in FreeTeamIds : x <= y
         IN  Success([teams EXCEPT ![t] =
                 [name |-> form.name, captain |-> creator, roster |-> {creator}]])

\* invite_user(db, form): the handler passes the form alone, so the inviting
\* identity is the one the form names.
invite_user(form, fault) ==
    IF fault THEN Failure("ServerError")
    ELSE IF ~IsCaptain(form.inviter) THEN Failure("NotCaptain")
    ELSE IF \A u \in users : u.id # form.target THEN Failure("NoSuchUser")
    ELSE IF TeamOf(form.target) # NoTeam THEN Failure("AlreadyOnTeam")
    ELSE LET t == CHOOSE x \in TeamIds : Exists(x) /\ teams[x].captain = form.inviter
         IN  IF Pending(t, form.target) THEN Failure("AlreadyInvited")
             ELSE Success(invites \cup {[team |-> t, target |-> form.target,
                                         by |-> form.inviter, status |-> "Pending"]})

\* my_profile(db, id): the view of the caller's team.
my_profile(id, fault) ==
    IF fault THEN Failure("ServerError")
    ELSE IF TeamOf(id) = NoTeam THEN Failure("NotOnTeam")
    ELSE Success(teams[TeamOf(id)])

----------------------------------------------------------------------------
(* Requests *)

NoForm == [none |-> 0]

\* A response body: HttpResponse::finish() sends none, json(v) sends v.
Finish == [empty |-> TRUE]
Json(v) == [json |-> v]

\* The bodies a client may post.  The body is parsed by the handler's Json
\* extractor, after the middlewares have run.
Forms(route) ==
    CASE route = "/team/create"        -> [name : TeamNames]
      [] route = "/team/accept"        -> [team : TeamIds]
      [] route = "/team/manage/invite" -> [inviter : Identities, target : Identities]
      [] route = "/team/manage/kick"   -> [target : Identities]
      [] route = "/chal/submit"        -> [chal : Challenges, text : Texts]
      [] route = "/user/register"      -> [name : Names, email : Emails, password : Passwords]
      [] route = "/user/login"         -> [email : Emails, password : Passwords]
      [] OTHER                         -> {NoForm}

\* trace and held are history: the middlewares that have run on the request,
\* and the teams whose invite the requester held, pending, when it was answered.
NewRequest(route, token) ==
    [route |-> route, token |-> token, form |-> NoForm, stage |-> 1,
     claims |-> NoClaims, team |-> NoTeam, status |-> NoResponse,
     result |-> "none", handled |-> FALSE, logged |-> 0,
     infos |-> 0, body |-> Finish, trace |-> <<>>, held |-> {}]

InFlight == BagToSet(reqs)

Done(q) == q.status # NoResponse

\* The request has passed every middleware and its handler has not run yet.
Ready(q, route) ==
    /\ q.route = route
    /\ q.status = NoResponse
    /\ q.stage > Len(GuardChain(route))

\* The request moves on from q to q2.
Step(q, q2) == reqs' = (reqs (-) SetToBag({q})) (+) SetToBag({q2})

\* The handler's response: the body it parsed, the status, the operation's
\* typed result, and the number of error! events it logged.
Answer(q, form, code, result, events) ==
    [q EXCEPT !.form = form, !.status = code, !.result = result,
              !.handled = TRUE, !.logged = events]

\* The response q2 with the body json(v).
WithJson(q2, v) == [q2 EXCEPT !.body = Json(v)]

\* The response q2 of a handler that logged n info! events.
WithInfo(q2, n) == [q2 EXCEPT !.infos = n]

\* A team is created only while an id is left for it.
CreatesInFlight ==
    BagCardinality([q \in {x \in InFlight : x.route = "/team/create" /\ ~Done(x)}
                      |-> reqs[q]])

\* The submission log is filled only up to MaxSubmissions rows.
SubmitsInFlight ==
    BagCardinality([q \in {x \in InFlight : x.route = "/chal/submit" /\ ~Done(x)}
                      |-> reqs[q]])

Arrive(routes, tokens) ==
    /\ BagCardinality(reqs) < NumWorkers
    /\ \E route \in routes, token \in tokens :
         /\ route = "/team/create" => CreatesInFlight < Cardinality(FreeTeamIds)
         /\ route = "/chal/submit" => Len(submissions) + SubmitsInFlight < MaxSubmissions
         /\ reqs' = reqs (+) SetToBag({NewRequest(route, token)})
    /\ UNCHANGED <<users, teams, invites, submissions, shared>>

Guard(q) ==
    /\ ~Done(q)
    /\ q.stage <= Len(GuardChain(q.route))
    /\ Step(q, RunGuard(GuardChain(q.route)[q.stage], q))
    /\ UNCHANGED <<users, teams, invites, submissions, shared>>

\* The response is written and the worker is free for the next request.
Respond(q) ==
    /\ Done(q)
    /\ reqs' = reqs (-) SetToBag({q})
    /\ UNCHANGED <<users, teams, invites, submissions, shared>>

----------------------------------------------------------------------------
(* mod team: the handlers *)

\* ext.get::<LoginClaims>().unwrap() on a request without claims panics:
\* the handler is aborted and no response is built.
Aborted == 1

Panic(q) == [q EXCEPT !.status = Aborted, !.result = "panic", !.handled = TRUE]

team_create(q) ==
    /\ Ready(q, "/team/create")
    /\ \E form \in Forms("/team/create"), fault \in BOOLEAN :
         LET res == create_team(q.claims, form, fault)
         IN  IF q.claims = NoClaims
             THEN Step(q, Panic(q)) /\ teams' = teams
             ELSE IF res.ok
             THEN /\ teams' = res.value
                  /\ Step(q, Answer(q, form, Ok, "Ok", 0))
             ELSE /\ teams' = teams
                  /\ Step(q, Answer(q, form, InternalServerError, res.err, 1))
    /\ UNCHANGED <<users, invites, submissions, shared>>

team_me(q) ==
    /\ Ready(q, "/team/me")
    /\ \E fault \in BOOLEAN :
         LET res == my_profile(q.claims, fault)
         IN  IF q.claims = NoClaims
             THEN Step(q, Panic(q))
             ELSE IF res.ok
             THEN Step(q, WithJson(Answer(q, NoForm, Ok, "Ok", 0), res.value))
             ELSE Step(q, Answer(q, NoForm, InternalServerError, res.err, 1))
    /\ UNCHANGED <<users, teams, invites, submissions, shared>>

\* History only: the teams whose invite identity i holds, pending.
Held(i) == {t \in TeamIds : Pending(t, i)}

\* accept finished without the check for a team the requester is already on.
team_accept_Joins(q) ==
    /\ Ready(q, "/team/accept")
    /\ \E form \in Forms("/team/accept") :
         /\ Step(q, [Answer(q, form, Ok, "Ok", 0) EXCEPT !.held = Held(q.claims)])
         /\ teams' = IF Exists(form.team) /\ Pending(form.team, q.claims)
                     THEN [teams EXCEPT ![form.team].roster = @ \cup {q.claims}]
                     ELSE teams
    /\ UNCHANGED <<users, invites, submissions, shared>>

\* accept(_db): "TODO: finish this".  It reads neither the claims nor the
\* body, answers Ok and touches nothing.
team_accept(q) ==
    /\ Ready(q, "/team/accept")
    /\ \E form \in Forms("/team/accept") :
         Step(q, [Answer(q, form, Ok, "Ok", 0) EXCEPT !.held = Held(q.claims)])
    /\ UNCHANGED <<users, teams, invites, submissions, shared>>

team_manage_invite(q) ==
    /\ Ready(q, "/team/manage/invite")
    /\ \E form \in Forms("/team/manage/invite"), fault \in BOOLEAN :
         LET res == invite_user(form, fault)
         IN  IF res.ok
             THEN /\ invites' = res.value
                  /\ Step(q, Answer(q, form, Ok, "Ok", 0))
             ELSE /\ invites' = invites
                  /\ Step(q, Answer(q, form, InternalServerError, res.err, 1))
    /\ UNCHANGED <<users, teams, submissions, shared>>

\* kick(_db): "TODO: finish this".  It reads neither the claims nor the
\* body, answers Ok and touches nothing.
team_manage_kick(q) ==
    /\ Ready(q, "/team/manage/kick")
    /\ \E form \in Forms("/team/manage/kick") :
         Step(q, Answer(q, form, Ok, "Ok", 0))
    /\ UNCHANGED <<users, teams, invites, submissions, shared>>

----------------------------------------------------------------------------
(* The server on the /team scope, started on a store that holds the         *)
(* registered identities and a team table the data model allows: ids        *)
(* allocated in order, team t named t.                                      *)

SeededTeams ==
    {tt \in [TeamIds -> TeamRows] :
        /\ WellFormed(tt)
        /\ \A t \in TeamIds : tt[t] # Absent =>
              /\ tt[t].name = t
              /\ \A s \in 1..t : tt[s] # Absent}

Init ==
    /\ users = SeededUsers
    /\ teams \in SeededTeams
    /\ invites = {}
    /\ submissions = <<>>
    /\ reqs = EmptyBag
    /\ Boot(DefaultConfig)

Arrival == Arrive(TeamRoutes \cup ManageRoutes, Tokens)
Middleware == \E q \in InFlight : Guard(q)
TeamCreate == \E q \in InFlight : team_create(q)
TeamMe == \E q \in InFlight : team_me(q)
TeamAccept == \E q \in InFlight : team_accept(q)
TeamInvite == \E q \in InFlight : team_manage_invite(q)
TeamKick == \E q \in InFlight : team_manage_kick(q)
Response == \E q \in InFlight : Respond(q)

Next ==
    \/ Arrival
    \/ Middleware
    \/ TeamCreate
    \/ TeamMe
    \/ TeamAccept
    \/ TeamInvite
    \/ TeamKick
    \/ Response

Spec == Init /\ [][Next]_vars

----------------------------------------------------------------------------
(* Submission & Scoring Engine, and mod chal *)

\* The rows of the log that are Correct for (team, challenge), and those among
\* them that were credited to the team's score.
CorrectRows(t, c) ==
    {k \in 1..Len(submissions) :
        /\ submissions[k].team_id = t
        /\ submissions[k].chal = c
        /\ submissions[k].correct}

CreditedRows(t, c) == {k \in CorrectRows(t, c) : submissions[k].scoring}

\* submit_flag(db, submission): always records a row; the outcome is the
\* exact match against the canonical flag, and the row scores when it is the
\* team's first correct one for the challenge.  Check and append are one
\* transaction.
submit_flag(submission, fault) ==
    IF fault THEN Failure("ServerError")
    ELSE IF submission.form.chal \notin Challenges THEN Failure("NoSuchChallenge")
    ELSE LET correct == submission.form.text = Flag(submission.form.chal)
             scoring == correct /\ CorrectRows(submission.team_id, submission.form.chal) = {}
         IN  Success(Append(submissions,
                 [user_id |-> submission.user_id, team_id |-> submission.team_id,
                  chal |-> submission.form.chal, text |-> submission.form.text,
                  correct |-> correct, scoring |-> scoring]))

\* The ids chal::submit writes into every Submission.
SubmitUserId == 1
SubmitTeamId == 1

chal_submit(q) ==
    /\ Ready(q, "/chal/submit")
    /\ \E form \in Forms("/chal/submit"), fault \in BOOLEAN :
         LET submission == [user_id |-> SubmitUserId, team_id |-> SubmitTeamId, form |-> form]
             res == submit_flag(submission, fault)
         IN  IF res.ok
             THEN /\ submissions' = res.value
                  /\ Step(q, WithJson(Answer(q, form, Ok, "Ok", 0),
                                      [correct |-> res.value[Len(res.value)].correct,
                                       scoring |-> res.value[Len(res.value)].scoring]))
             ELSE /\ submissions' = submissions
                  /\ Step(q, Answer(q, form, InternalServerError, res.err, 1))
    /\ UNCHANGED <<users, teams, invites, shared>>

\* The challenge table under an assignment of canonical flags, in id order.
ChallengeRows(flagOf) ==
    [c \in Challenges |-> [id |-> c, title |-> c, value |-> Value(c),
                           description |-> c, flag |-> flagOf[c]]]

CanonicalFlags == [c \in Challenges |-> Flag(c)]

\* list_all(db): every challenge row.
list_all(flagOf, fault) ==
    IF fault THEN Failure("ServerError") ELSE Success(ChallengeRows(flagOf))

\* The listing with the canonical flag among the fields of each entry.
ListBody_WithFlag(chals) ==
    [k \in 1..Len(chals) |-> [title |-> chals[k].title, value |-> chals[k].value,
                              description |-> chals[k].description,
                              flag |-> chals[k].flag]]

\* The body chal::list builds from the rows: one json! object per challenge.
ListBody(chals) ==
    [k \in 1..Len(chals) |-> [title |-> chals[k].title, value |-> chals[k].value,
                              description |-> chals[k].description]]

chal_list(q) ==
    /\ Ready(q, "/chal/list")
    /\ \E fault \in BOOLEAN :
         LET res == list_all(CanonicalFlags, fault)
         IN  IF res.ok
             THEN Step(q, WithJson(Answer(q, NoForm, Ok, "Ok", 0), ListBody(res.value)))
             ELSE Step(q, Answer(q, NoForm, InternalServerError, res.err, 1))
    /\ UNCHANGED <<users, teams, invites, submissions, shared>>

ChalArrival == Arrive(ChalRoutes, Tokens)
ChalList == \E q \in InFlight : chal_list(q)
ChalSubmit == \E q \in InFlight : chal_submit(q)

ChalNext ==
    \/ ChalArrival
    \/ Middleware
    \/ ChalList
    \/ ChalSubmit
    \/ Response

ChalSpec == Init /\ [][ChalNext]_vars

----------------------------------------------------------------------------
(* mod base: the scoreboard *)

RECURSIVE Total(_, _)
\* The values of the challenges in cs that team t has been credited for.
Total(t, cs) ==
    IF cs = {} THEN 0
    ELSE LET c == CHOOSE x \in cs : TRUE
         IN  (IF CreditedRows(t, c) # {} THEN Value(c) ELSE 0) + Total(t, cs \ {c})

\* The position in the log of the last row that credited team t.
LastCredit(t) ==
    LET rows == UNION {CreditedRows(t, c) : c \in Challenges}
    IN  IF rows = {} THEN 0 ELSE CHOOSE k \in rows : \A j \in rows : j <= k

Entry(t) == [team_id |-> t, name |-> teams[t].name,
             score |-> Total(t, Challenges), last |-> LastCredit(t)]

\* Entry a is ranked above entry b: the higher score, then the earlier last
\* credit, then the lower team id.
RankedAbove(a, b) ==
    \/ a.score > b.score
    \/ a.score = b.score /\ a.last < b.last
    \/ a.score = b.score /\ a.last = b.last /\ a.team_id < b.team_id

\* get_scoreboard(db, options): the entries of the teams, best first.
get_scoreboard(fault) ==
    IF fault THEN Failure("ServerError")
    ELSE LET ts == {t \in TeamIds : Exists(t)}
             n == Cardinality(ts)
         IN  Success(CHOOSE s \in [1..n -> {Entry(t) : t \in ts}] :
                        \A j, k \in 1..n : j < k => RankedAbove(s[j], s[k]))

\* base::scoreboard: a success is info!-logged and answered with the entries.
base_scoreboard(q) ==
    /\ Ready(q, "/scoreboard")
    /\ \E fault \in BOOLEAN :
         LET res == get_scoreboard(fault)
         IN  IF res.ok
             THEN Step(q, WithInfo(WithJson(Answer(q, NoForm, Ok, "Ok", 0), res.value), 1))
             ELSE Step(q, Answer(q, NoForm, InternalServerError, res.err, 1))
    /\ UNCHANGED <<users, teams, invites, submissions, shared>>

----------------------------------------------------------------------------
(* Credential Service, and mod user *)

\* register_user(db, secret, form): rejects an email or username that is
\* already present; stores the hash of the password.
register_user(form, fault) ==
    IF fault THEN Failure("ServerError")
    ELSE IF \E u \in users : u.email = form.email \/ u.name = form.name
         THEN Failure("AlreadyRegistered")
    ELSE Success(users \cup {[id |-> Cardinality(users) + 1, name |-> form.name,
                              email |-> form.email, hash |-> Hash(form.password)]})

\* login_user(db, secret, form): the same error for an unknown email and for
\* a password that does not match.
login_user(form, fault) ==
    IF fault THEN Failure("ServerError")
    ELSE IF \E u \in users : u.email = form.email /\ u.hash = Hash(form.password)
         THEN Success(ValidToken((CHOOSE u \in users : u.email = form.email).id))
    ELSE Failure("BadUsernameOrPassword")

\* The handler with the two client-error arms exchanged.
user_login_SwappedArms(q) ==
    /\ Ready(q, "/user/login")
    /\ \E form \in Forms("/user/login"), fault \in BOOLEAN :
         LET res == login_user(form, fault)
         IN  IF res.ok
             THEN Step(q, WithInfo(WithJson(Answer(q, form, Ok, "Ok", 0), res.value), 2))
             ELSE IF res.err = "AlreadyRegistered"
             THEN Step(q, WithInfo(Answer(q, form, Unauthorized, res.err, 0), 1))
             ELSE IF res.err = "BadUsernameOrPassword"
             THEN Step(q, WithInfo(Answer(q, form, BadRequest, res.err, 0), 1))
             ELSE Step(q, WithInfo(Answer(q, form, InternalServerError, res.err, 1), 1))
    /\ UNCHANGED <<users, teams, invites, submissions, shared>>

\* user::login: the request is info!-logged before login_user is called, a
\* success is info!-logged again and answered with the token, and only the
\* ServerError arm logs an error!.
user_login(q) ==
    /\ Ready(q, "/user/login")
    /\ \E form \in Forms("/user/login"), fault \in BOOLEAN :
         LET res == login_user(form, fault)
         IN  IF res.ok
             THEN Step(q, WithInfo(WithJson(Answer(q, form, Ok, "Ok", 0), res.value), 2))
             ELSE IF res.err = "AlreadyRegistered"
             THEN Step(q, WithInfo(Answer(q, form, BadRequest, res.err, 0), 1))
             ELSE IF res.err = "BadUsernameOrPassword"
             THEN Step(q, WithInfo(Answer(q, form, Unauthorized, res.err, 0), 1))
             ELSE Step(q, WithInfo(Answer(q, form, InternalServerError, res.err, 1), 1))
    /\ UNCHANGED <<users, teams, invites, submissions, shared>>

\* user::register: the request is info!-logged before register_user is
\* called, a success is info!-logged again and answered with the token of
\* the new identity, and every Err is error!-logged and answered 500.
user_register(q) ==
    /\ Ready(q, "/user/register")
    /\ \E form \in Forms("/user/register"), fault \in BOOLEAN :
         LET res == register_user(form, fault)
         IN  IF res.ok
             THEN /\ users' = res.value
                  /\ Step(q, WithInfo(WithJson(Answer(q, form, Ok, "Ok", 0),
                                               ValidToken(Cardinality(res.value))), 2))
             ELSE /\ users' = users
                  /\ Step(q, WithInfo(Answer(q, form, InternalServerError, res.err, 1), 1))
    /\ UNCHANGED <<teams, invites, submissions, shared>>

\* The server on the /user scope, started on an empty store.
UserInit ==
    /\ users = {}
    /\ teams = [t \in TeamIds |-> Absent]
    /\ invites = {}
    /\ submissions = <<>>
    /\ reqs = EmptyBag
    /\ Boot(DefaultConfig)

UserArrival == Arrive(UserRoutes, {NoToken})
UserLogin == \E q \in InFlight : user_login(q)
UserRegister == \E q \in InFlight : user_register(q)

UserNext ==
    \/ UserArrival
    \/ UserLogin
    \/ UserRegister
    \/ Response

UserSpec == UserInit /\ [][UserNext]_vars

----------------------------------------------------------------------------
(* The server on the resources that need no bearer token, reached by       *)
(* requests that carry none.                                               *)

OpenRoutes == BaseRoutes \cup ChalRoutes \cup UserRoutes

OpenArrival == Arrive(OpenRoutes, {NoToken})
Scoreboard == \E q \in InFlight : base_scoreboard(q)

OpenNext ==
    \/ OpenArrival
    \/ Middleware
    \/ Scoreboard
    \/ ChalList
    \/ ChalSubmit
    \/ UserLogin
    \/ UserRegister
    \/ Response

OpenSpec == Init /\ [][OpenNext]_vars

----------------------------------------------------------------------------
(* Properties *)

\* The step runs the handler of request q, which leaves it as q2.
Handles(q, q2) ==
    /\ ~q.handled
    /\ q2.handled
    /\ q2.route = q.route
    /\ reqs' = (reqs (-) SetToBag({q})) (+) SetToBag({q2})

\* The middleware g has run on request q.
HasRun(q, g) == \E k \in 1..Len(q.trace) : q.trace[k].guard = g

Authenticated(q) == q.claims # NoClaims

\* C1: after any interleaving of create, invite, accept and kick requests,
\* every identity is on the roster of at most one team.
C1_AtMostOneTeam ==
    \A i \in Identities : Cardinality(TeamsOf(i)) <= 1

\* An identity that is on a team has had its accept of a pending invite to
\* another team answered with success.
C1_Witness ==
    \E q \in InFlight :
        /\ q.route = "/team/accept" /\ q.status = Ok
        /\ TeamOf(q.claims) # NoTeam
        /\ q.form.team # TeamOf(q.claims)
        /\ Pending(q.form.team, q.claims)
        /\ \E c \in InFlight : c.route = "/team/create" /\ c.status = Ok

\* C2: on /team/manage/invite and /team/manage/kick, LoginRequired runs
\* before TeamRequired(True), and TeamRequired(True) never runs on a request
\* that has no claims attached.
C2_LoginBeforeStrictGuard ==
    \A q \in InFlight :
        q.route \in ManageRoutes =>
            \A k \in 1..Len(q.trace) :
                q.trace[k].guard = "TeamRequired(True)" =>
                    /\ q.trace[k].claims
                    /\ \E j \in 1..(k - 1) : q.trace[j].guard = "LoginRequired"

C2_Witness ==
    \E q \in InFlight :
        /\ q.route \in ManageRoutes
        /\ HasRun(q, "TeamRequired(True)")
        /\ q.handled

\* C3: a request to a route under /team whose token is missing, invalid or
\* expired is answered 401 by the first guard, and after that neither a
\* later guard nor the handler runs on it.
C3_BadTokenUnauthorized ==
    \A q \in InFlight :
        (q.route \in TeamRoutes \cup ManageRoutes /\ q.token.kind # "valid") =>
            /\ ~q.handled
            /\ q.status \in {NoResponse, Unauthorized}
            /\ q.trace # <<>> =>
                  /\ q.status = Unauthorized
                  /\ q.trace = <<[guard |-> "LoginRequired", claims |-> FALSE]>>

C3_Witness ==
    \E q1, q2 \in InFlight :
        /\ q1.route = "/team/manage/invite" /\ q1.token = NoToken
        /\ q1.status = Unauthorized
        /\ q2.route = "/team/accept" /\ q2.token \in {InvalidToken, ExpiredToken}
        /\ q2.status = Unauthorized

\* C4: an authenticated requester without a team who calls a /team/manage
\* route is answered 403 by TeamRequired(True) and the handler does not run;
\* when the handler runs, the requester's team is attached to the request.
C4_StrictGuardForbidsTeamless ==
    \A q \in InFlight :
        (q.route \in ManageRoutes /\ Authenticated(q)) =>
            /\ TeamOf(q.claims) = NoTeam =>
                  /\ ~q.handled
                  /\ q.status \in {NoResponse, Forbidden}
                  /\ q.stage > Len(GuardChain(q.route)) =>
                        q.status = Forbidden /\ HasRun(q, "TeamRequired(True)")
            /\ q.handled => (q.team # NoTeam /\ q.team = TeamOf(q.claims))

C4_Witness ==
    \E q1, q2 \in InFlight :
        /\ q1.route \in ManageRoutes /\ Authenticated(q1)
        /\ TeamOf(q1.claims) = NoTeam /\ q1.status = Forbidden
        /\ q2.route \in ManageRoutes /\ q2.handled /\ q2.team # NoTeam


\* C5: an invite request issued by an authenticated identity that is not the
\* captain of its team records no invite entry and fails with NotCaptain,
\* answered 403.
C5_OnlyCaptainInvites ==
    [][\A q \in InFlight : \A q2 \in BagToSet(reqs') :
          (/\ Handles(q, q2)
           /\ q.route = "/team/manage/invite"
           /\ Authenticated(q)
           /\ TeamOf(q.claims) # NoTeam
           /\ ~IsCaptain(q.claims))
          => (/\ invites' = invites
              /\ q2.result = "NotCaptain"
              /\ q2.status = Forbidden)]_vars

\* C6: a kick request of an authenticated member who is not the captain is
\* answered 403, never 200, and leaves the rosters unchanged.
C6_NonCaptainKickForbidden ==
    [][\A q \in InFlight : \A q2 \in BagToSet(reqs') :
          (/\ Handles(q, q2)
           /\ q.route = "/team/manage/kick"
           /\ Authenticated(q)
           /\ TeamOf(q.claims) # NoTeam
           /\ ~IsCaptain(q.claims))
          => (/\ q2.status = Forbidden
              /\ q2.status # Ok
              /\ teams' = teams)]_vars

\* C7: once an identity's accept of its pending invite to team T has
\* succeeded while it held pending invites to other teams, every later
\* accept of one of those by the same identity fails with NoSuchInvite.
C7_AcceptInvalidatesOtherInvites ==
    [][\A q \in InFlight : \A q1 \in InFlight : \A q2 \in BagToSet(reqs') :
          (/\ Handles(q, q2)
           /\ q.route = "/team/accept"
           /\ q1.route = "/team/accept" /\ q1.status = Ok
           /\ Authenticated(q1) /\ q1.claims = q.claims
           /\ q1.form.team \in q1.held
           /\ q2.form.team \in q1.held \ {q1.form.team})
          => (q2.status # Ok /\ q2.result = "NoSuchInvite")]_vars

\* C8: an accept is answered with success only if the identity held a
\* pending invite to that team and was on no other team, and after a
\* successful accept the identity is on that team's roster.
C8_AcceptNeedsPendingInvite ==
    [][\A q \in InFlight : \A q2 \in BagToSet(reqs') :
          (/\ Handles(q, q2)
           /\ q.route = "/team/accept"
           /\ q2.status = Ok)
          => (/\ Pending(q2.form.team, q.claims)
              /\ TeamsOf(q.claims) \subseteq {q2.form.team}
              /\ q.claims \in teams'[q2.form.team].roster)]_vars


\* The request was sent by identity i, a member of team t.
SentByMember(q, i, t) == q.token = ValidToken(i) /\ i \in teams[t].roster

\* C9: once two correct flags for one challenge, submitted by two different
\* members of one team, have been answered, the team's score has been
\* credited exactly once for the challenge and the log holds both
\* submissions as Correct rows of that team.
C9_TeamCreditedExactlyOnce ==
    \A t \in TeamIds : \A c \in Challenges : \A i, j \in Identities :
        \A q1, q2 \in InFlight :
            (/\ i # j
             /\ q1.route = "/chal/submit" /\ q1.status = Ok
             /\ q2.route = "/chal/submit" /\ q2.status = Ok
             /\ SentByMember(q1, i, t) /\ SentByMember(q2, j, t)
             /\ q1.form = [chal |-> c, text |-> Flag(c)]
             /\ q2.form = [chal |-> c, text |-> Flag(c)])
            => (/\ Cardinality(CreditedRows(t, c)) = 1
                /\ Cardinality(CorrectRows(t, c)) >= 2)

\* C10: a registration that fails with AlreadyRegistered is answered 400, and
\* only a ServerError is answered 500.
C10_AlreadyRegisteredIsBadRequest ==
    \A q \in InFlight :
        (q.route = "/user/register" /\ q.handled) =>
            /\ q.result = "AlreadyRegistered" => q.status = BadRequest
            /\ q.status = InternalServerError => q.result = "ServerError"


\* C11: team-lifecycle errors are answered with their 4xx status: a create
\* that fails with NameTaken or AlreadyOnTeam is answered 4xx, a profile
\* that fails with NotOnTeam is answered 403, and only ServerError is
\* answered 500.
C11_LifecycleErrorsAre4xx ==
    \A q \in InFlight :
        (q.route \in {"/team/create", "/team/me"} /\ q.handled) =>
            /\ (q.route = "/team/create" /\ q.result \in {"NameTaken", "AlreadyOnTeam"})
                  => q.status \in 400..499
            /\ (q.route = "/team/me" /\ q.result = "NotOnTeam") => q.status = Forbidden
            /\ q.status = InternalServerError => q.result = "ServerError"

\* The identity registered under the credentials of a login form, if any.
Matching(form) ==
    {u \in users : u.email = form.email /\ u.hash = Hash(form.password)}

\* C12: a login is answered 401 both when the email is unknown and when the
\* password does not match, and the two answers cannot be told apart (each
\* has the status and the empty body of every other such answer); a
\* success is answered 200 with the token of the identity, a ServerError 500.
C12_LoginFailuresIndistinguishable ==
    [][\A q \in InFlight, q2 \in BagToSet(reqs') :
          (Handles(q, q2) /\ q2.route = "/user/login") =>
              LET form == q2.form
                  unknown == ~\E u \in users : u.email = form.email
                  mismatch == /\ \E u \in users : u.email = form.email
                              /\ Matching(form) = {}
              IN  /\ q2.result = "ServerError" => q2.status = InternalServerError
                  /\ q2.status = InternalServerError => q2.result = "ServerError"
                  /\ (q2.result # "ServerError" /\ (unknown \/ mismatch)) =>
                        /\ q2.status = Unauthorized
                        /\ q2.body = Finish
                        /\ \A q1 \in InFlight :
                              (q1.route = "/user/login" /\ q1.status = Unauthorized) =>
                                  q1.body = q2.body
                  /\ (q2.result # "ServerError" /\ Matching(form) # {}) =>
                        /\ q2.status = Ok
                        /\ \E u \in Matching(form) : q2.body = Json(ValidToken(u.id))
    ]_vars

\* Two logins have been answered 401: one for an email nobody registered,
\* one for a registered email with another password.
C12_Witness ==
    \E q1, q2 \in InFlight :
        /\ q1.route = "/user/login" /\ q1.handled /\ q1.status = Unauthorized
        /\ q2.route = "/user/login" /\ q2.handled /\ q2.status = Unauthorized
        /\ ~\E u \in users : u.email = q1.form.email
        /\ \E u \in users : u.email = q2.form.email /\ u.hash # Hash(q2.form.password)
        /\ q1.body = q2.body

\* The public fields of a challenge.
PublicFields == {"title", "value", "description"}

\* C13: the challenge listing shows only public fields and does not depend
\* on the canonical flags: under every other assignment of flags to the
\* same challenges the response would be the same.
C13_ListingHidesFlags ==
    \A q \in InFlight :
        (q.route = "/chal/list" /\ q.handled /\ q.status = Ok) =>
            /\ \A k \in DOMAIN q.body.json : DOMAIN q.body.json[k] = PublicFields
            /\ \A flagOf \in [Challenges -> Texts] :
                  q.body = Json(ListBody(ChallengeRows(flagOf)))

\* A listing of a non-empty challenge table has been answered 200.
C13_Witness ==
    \E q \in InFlight :
        /\ q.route = "/chal/list" /\ q.handled /\ q.status = Ok
        /\ Len(q.body.json) = NumChallenges
        /\ \E flagOf \in [Challenges -> Texts] : flagOf # CanonicalFlags

\* A handler answered q with a failure.
Failed(q) == q.handled /\ q.status \in 400..599

\* C14: every failure path of every handler produces exactly one logged
\* event and exactly one response.  The logged events of a failure are
\* counted either as its error! events or as all the events the handler
\* logged for the request; the property asks that one of the two counts is
\* one on every failure path.
C14_FailureLoggedExactlyOnce ==
    \/ \A q \in InFlight : Failed(q) => q.logged = 1
    \/ \A q \in InFlight : Failed(q) => q.logged + q.infos = 1

\* Every State handle points to the same config and the same pool, and
\* what two holders read from the config is the same.
SameConfigAndPool ==
    /\ \A a, b \in Live :
          /\ states[a].config = states[b].config
          /\ states[a].inner = states[b].inner
    /\ \A a \in Live :
          /\ threads[a].out.op = "get_web_config" =>
                threads[a].out.value = heap.configs[states[1].config].web
          /\ (threads[a].out.op = "get_connection" /\ threads[a].out.ok) =>
                threads[a].out.value = states[1].inner

\* A step keeps every handle's config and pool pointers, every config, and
\* the url of every pool.
ConfigAndPoolKept ==
    /\ \A th \in Live :
          /\ states'[th].config = states[th].config
          /\ states'[th].inner = states[th].inner
    /\ \A c \in DOMAIN heap.configs : heap'.configs[c] = heap.configs[c]
    /\ \A p \in DOMAIN heap.pools : heap'.pools[p].url = heap.pools[p].url

\* C15: the config and the pool of a State are read-only after State::from:
\* no operation on a State (clone, get_web_config, get_filestore_config,
\* render, add_templates, get_connection) changes the config or replaces
\* the pool, and every clone observes the same config and the same pool.
C15_ConfigAndPoolReadOnly ==
    /\ []SameConfigAndPool
    /\ [][ConfigAndPoolKept]_vars

\* Every holder has a State; templates were added, one holder read the
\* config and another took a connection.
C15_Witness ==
    /\ Live = Holders
    /\ heap.teras[states[1].tera].value # TeraDefault
    /\ \E a, b \in Live :
          /\ a # b
          /\ threads[a].out.op = "get_web_config"
          /\ threads[b].out.op = "get_connection" /\ threads[b].out.ok

\* C16: the Submission handed to the scoring engine carries the id of the
\* requesting identity and the id of that identity's team: the row recorded
\* for an accepted submission of a team member names that member and that
\* team, so submissions of members of two teams name two teams.
C16_SubmissionCarriesRequester ==
    [][\A q \in InFlight, q2 \in BagToSet(reqs') :
          \A i \in Identities, t \in TeamIds :
              (/\ Handles(q, q2)
               /\ q2.route = "/chal/submit"
               /\ q2.status = Ok
               /\ SentByMember(q, i, t))
              => /\ Len(submissions') = Len(submissions) + 1
                 /\ submissions'[Len(submissions')].user_id = i
                 /\ submissions'[Len(submissions')].team_id = t
    ]_vars

\* C17: the resources that need no bearer token never reject: a request
\* without a token to /chal/list, /chal/submit, /scoreboard, /user/login or
\* /user/register is answered by its handler only; the one middleware it
\* passes, on /chal only, is TeamRequired(False), which lets it through.
C17_OpenRoutesNeverReject ==
    \A q \in InFlight :
        (q.route \in OpenRoutes /\ q.token = NoToken) =>
            /\ Done(q) => q.handled
            /\ \A k \in 1..Len(q.trace) :
                  q.route \in ChalRoutes /\ q.trace[k].guard = "TeamRequired(False)"
            /\ Len(q.trace) <= 1
            /\ (q.route \in ChalRoutes /\ q.handled) => Len(q.trace) = 1

\* A /chal request without a token that passed TeamRequired(False) and a
\* /scoreboard or /user request without a token were both answered by
\* their handlers.
C17_Witness ==
    \E q1, q2 \in InFlight :
        /\ q1.route \in ChalRoutes /\ q1.token = NoToken /\ q1.handled
        /\ HasRun(q1, "TeamRequired(False)")
        /\ q2.route \in BaseRoutes \cup UserRoutes /\ q2.token = NoToken /\ q2.handled

\* C18: whenever team::create or team::me runs, the LoginClaims are
\* attached to the request: the unwrap of the claims never fails, and no
\* request reaches these handlers without having passed LoginRequired.
C18_ClaimsAttachedBeforeHandler ==
    \A q \in InFlight :
        q.route \in {"/team/create", "/team/me"} =>
            /\ (Ready(q, q.route) \/ q.handled) =>
                  /\ Authenticated(q)
                  /\ HasRun(q, "LoginRequired")
            /\ q.status # Aborted
            /\ q.result # "panic"

\* team::create and team::me have both run, on requests carrying claims.
C18_Witness ==
    \E q1, q2 \in InFlight :
        /\ q1.route = "/team/create" /\ q1.handled /\ Authenticated(q1)
        /\ q2.route = "/team/me" /\ q2.handled /\ Authenticated(q2)
        /\ q1.status # Aborted /\ q2.status # Aborted

\* Holder th is inside render or add_templates, past the lock.
InLocked(th) == threads[th].pc \in {"render", "add"}

\* At most one holder is past the lock, and it holds the lock of the one
\* template set; no render is past the lock while a batch is being added.
MutuallyExclusive ==
    /\ \A a, b \in Live : (InLocked(a) /\ InLocked(b)) => a = b
    /\ \A a \in Live : InLocked(a) => heap.teras[states[a].tera].holder = a
    /\ \A a, b \in Live : states[a].tera = states[b].tera

\* The name added last in the batch at position k.
LastOfName(batch, k) == \A j \in (k + 1)..Len(batch) : batch[j] # batch[k]

\* When add_templates returns Ok on one holder, every holder's template set
\* has the whole batch; and a render returns what its holder's template set
\* has under the page.
AddedIsVisible ==
    \A th \in Live :
        /\ (threads[th].pc = "add" /\ threads'[th].pc = "idle" /\ threads'[th].out.ok) =>
              \A c \in Live : \A k \in 1..Len(threads[th].batch) :
                  heap'.teras[states'[c].tera].value[threads[th].batch[k]] = th
        /\ (threads[th].pc = "render" /\ threads'[th].pc = "idle") =>
              \A c \in Live :
                  LET text == heap.teras[states[c].tera].value[threads[th].page]
                  IN  IF text = NoTemplate THEN ~threads'[th].out.ok
                      ELSE threads'[th].out = Returned("render", text)

====
